---- MODULE Spec2Model ----
(* Model of onnxcli's `inspect` sub-command (src/onnxcli/inspect.py).        *)
(* One run of InspectCmd.run is a small sequential state machine: validate   *)
(* the flags, check the model, load it, then print meta / nodes / tensors /  *)
(* the aggregate summary.  A printed line and an error message are sequences *)
(* of string tokens, built the way the code builds them (str.format fills    *)
(* the "{}" tokens of a template, print joins its arguments with a space).   *)
EXTENDS Integers, Sequences, FiniteSets, TLC

VARIABLES args, file, pc, m, checked, loaded, printed_any, out, err

vars == <<args, file, pc, m, checked, loaded, printed_any, out, err>>

(* ------------------------------ bounds ---------------------------------- *)
\* number of values given to --indices and --names together
MaxSel == 2
\* largest index value tried on the command line (the smallest is -1)
MaxIdx == 1
\* number of nodes of a graph
MaxNodes == 3
\* number of tensors of a graph, over its four tensor collections together
MaxTensors == 2
\* number of metadata_props entries of a model
MaxProps == 2

(* --------------------------- generic helpers ---------------------------- *)
SeqsUpTo(S, n) == UNION {[1..k -> S] : k \in 0..n}

RECURSIVE Concat(_)
\* flattens a sequence of sequences
Concat(ss) == IF ss = <<>> THEN <<>> ELSE Head(ss) \o Concat(Tail(ss))

RECURSIVE NatStr(_)
NatStr(n) ==
    IF n < 10 THEN <<"0", "1", "2", "3", "4", "5", "6", "7", "8", "9">>[n + 1]
    ELSE NatStr(n \div 10) \o NatStr(n % 10)

\* str(int), as "{}".format(i) renders an integer
IntStr(i) == IF i < 0 THEN "-" \o NatStr(-i) ELSE NatStr(i)

\* a string value as format argument
Str(s) == <<s>>

RECURSIVE Fill(_, _)
\* str.format: every "{}" of the template is replaced, left to right, by the
\* rendering of the next argument; the other tokens are copied
Fill(template, fargs) ==
    IF template = <<>> THEN <<>>
    ELSE IF Head(template) = "{}" /\ fargs # <<>>
         THEN Head(fargs) \o Fill(Tail(template), Tail(fargs))
         ELSE <<Head(template)>> \o Fill(Tail(template), fargs)

RECURSIVE Join(_)
\* print(a, b, c): the arguments separated by one space
Join(parts) ==
    IF parts = <<>> THEN <<>>
    ELSE IF Len(parts) = 1 THEN Head(parts)
    ELSE Head(parts) \o <<" ">> \o Join(Tail(parts))

RECURSIVE Items(_)
Items(s) ==
    IF s = <<>> THEN <<>>
    ELSE IF Len(s) = 1 THEN <<Head(s)>>
    ELSE <<Head(s), ", ">> \o Items(Tail(s))

\* rendering of a repeated field by "{}".format
Repr(s) == <<"[">> \o Items(s) \o <<"]">>

Rule == "--------------------------------------------------------------------------------"

(* ------------------------------ errors ---------------------------------- *)
NoErr == [exc |-> "None", kind |-> "None", msg |-> <<>>]

ValueError(kind, msg) == [exc |-> "ValueError", kind |-> kind, msg |-> msg]

\* a repeated field indexed outside -len .. len-1
IndexError == [exc |-> "IndexError", kind |-> "IndexError",
               msg |-> <<"list index out of range">>]

\* print_basic(args, g) called on def print_basic(g)
TypeError == [exc |-> "TypeError", kind |-> "TypeError",
              msg |-> <<"print_basic() takes 1 positional argument but 2 were given">>]

ModelLoadFailure == [exc |-> "Exception", kind |-> "ModelLoadFailure",
                     msg |-> <<"load_model failed">>]

\* result of a printing function: the lines it printed and the exception it
\* raised, if any
Res(lines, e) == [out |-> lines, err |-> e]

\* run a then, unless a raised, b
Then(a, b) == IF a.err # NoErr THEN a ELSE Res(a.out \o b.out, b.err)

\* C[idx] on a repeated field: negative indices count from the end
InRange(C, idx) == -Len(C) <= idx /\ idx < Len(C)
Item(C, idx) == IF idx >= 0 THEN C[idx + 1] ELSE C[Len(C) + idx + 1]

(* ------------------------------ inputs ---------------------------------- *)
Names == {"a", "b"}
OpTypes == {"Conv", "Relu"}
\* onnx.TensorProto.DataType: FLOAT, INT64
ElemTypes == {1, 7}

\* NodeProto; a Conv carries attributes, a Relu has none
Nodes == {[name |-> n, op_type |-> o, input |-> <<>>, output |-> <<>>,
           attribute |-> IF o = "Conv" THEN <<"kernel_shape">> ELSE <<>>] :
          n \in Names, o \in OpTypes}

\* ValueInfoProto
ValueInfos == [name : Names, elem_type : ElemTypes, shape : {<<>>}]

\* TensorProto
Initializers == [name : Names, data_type : ElemTypes, dims : {<<>>},
                 float_data : {<<>>}]

\* StringStringEntryProto
Props == [key : {"k1", "k2"}, value : {"v"}]

Graph(nodes, vi, ini, inp, outp) ==
    [name |-> "g", node |-> nodes, value_info |-> vi, initializer |-> ini,
     input |-> inp, output |-> outp, sparse_initializer |-> <<>>,
     quantization_annotation |-> <<>>]

Model(props, g) ==
    [ir_version |-> 7, opset_import |-> <<"11">>, producer_name |-> "p",
     producer_version |-> "1", domain |-> "d", doc_string |-> "s",
     metadata_props |-> props, graph |-> g]

EmptyGraph == Graph(<<>>, <<>>, <<>>, <<>>, <<>>)

\* the four tensor collections of a graph with at most n tensors in all
TensorSplits(n) ==
    UNION {{<<vi, ini, inp, outp>> :
              vi \in [1..l[1] -> ValueInfos], ini \in [1..l[2] -> Initializers],
              inp \in [1..l[3] -> ValueInfos], outp \in [1..l[4] -> ValueInfos]} :
           l \in {k \in [1..4 -> 0..n] : k[1] + k[2] + k[3] + k[4] <= n}}

\* a model with nodes, tensors in every collection and metadata
MixedModel ==
    Model(<<[key |-> "k1", value |-> "v"]>>,
          Graph(<<[name |-> "a", op_type |-> "Conv", input |-> <<>>, output |-> <<>>,
                   attribute |-> <<"kernel_shape">>],
                  [name |-> "b", op_type |-> "Relu", input |-> <<>>, output |-> <<>>,
                   attribute |-> <<>>]>>,
                <<[name |-> "a", elem_type |-> 1, shape |-> <<>>]>>,
                <<[name |-> "a", data_type |-> 7, dims |-> <<>>, float_data |-> <<>>]>>,
                <<[name |-> "a", elem_type |-> 1, shape |-> <<>>]>>,
                <<[name |-> "b", elem_type |-> 1, shape |-> <<>>]>>))

\* the model files inspected
BaseFiles == {Model(<<>>, EmptyGraph), MixedModel}
NodeFiles ==
    {Model(<<>>, Graph(ns, <<>>, <<>>, <<>>, <<>>)) : ns \in SeqsUpTo(Nodes, MaxNodes)}
TensorFiles ==
    {Model(<<>>, Graph(<<>>, t[1], t[2], t[3], t[4])) : t \in TensorSplits(MaxTensors)}
MetaFiles == {Model(ps, EmptyGraph) : ps \in SeqsUpTo(Props, MaxProps)}

Files == BaseFiles \cup NodeFiles \cup TensorFiles \cup MetaFiles

\* the parsed command line (argparse): store_true flags are booleans,
\* --indices takes ints (negative ones included), --names takes strings
Args ==
    {a \in [meta : BOOLEAN, node : BOOLEAN, tensor : BOOLEAN, detail : BOOLEAN,
            indices : SeqsUpTo(-1..MaxIdx, MaxSel), names : SeqsUpTo(Names, MaxSel)] :
       Len(a.indices) + Len(a.names) <= MaxSel}

\* the command lines that ask for one thing only, with selectors that pass
\* the validation
Single(a) == Len(a.indices) = 0 \/ Len(a.names) = 0
NodeArgs == {a \in Args : a.node /\ ~a.tensor /\ ~a.meta /\ Single(a)}
TensorArgs == {a \in Args : a.tensor /\ ~a.node /\ ~a.meta /\ Single(a)}
MetaArgs == {a \in Args : a.meta /\ Len(a.indices) = 0 /\ Len(a.names) = 0}

\* the runs explored: every command line on the base files, and the
\* single-purpose command lines on the files that vary what they inspect
Runs ==
    (Args \X BaseFiles) \cup (NodeArgs \X NodeFiles)
    \cup (TensorArgs \X TensorFiles) \cup (MetaArgs \X MetaFiles)

(* ----------------------------- formatter -------------------------------- *)
\* onnxcli.common.dtype: the name of the element type
dtype(e) == IF e = 1 THEN <<"FLOAT">> ELSE IF e = 7 THEN <<"INT64">> ELSE <<"UNDEFINED">>

\* onnxcli.common.shape: the dimensions in declared order
shape(sh) == Repr(sh)

print_meta(mm) ==
    << <<"Meta information:">>,
       <<Rule>>,
       Fill(<<"  IR Version: ", "{}">>, <<Str(IntStr(mm.ir_version))>>),
       Fill(<<"  Opset Import: ", "{}">>, <<Repr(mm.opset_import)>>),
       Fill(<<"  Producer name: ", "{}">>, <<Str(mm.producer_name)>>),
       Fill(<<"  Producer version: ", "{}">>, <<Str(mm.producer_version)>>),
       Fill(<<"  Domain: ", "{}">>, <<Str(mm.domain)>>),
       Fill(<<"  Doc string: ", "{}">>, <<Str(mm.doc_string)>>) >>
    \o [i \in 1..Len(mm.metadata_props) |->
          Join(<< <<"  meta.", "{}", " = ", "{}">>,
                  Str(mm.metadata_props[i].key),
                  Str(mm.metadata_props[i].value) >>)]

print_basic(g) ==
    << Fill(<<"  Graph name: ", "{}">>, <<Str(IntStr(Len(g.name)))>>),
       Fill(<<"  Graph inputs: ", "{}">>, <<Str(IntStr(Len(g.input)))>>),
       Fill(<<"  Graph outputs: ", "{}">>, <<Str(IntStr(Len(g.output)))>>),
       Fill(<<"  Nodes in total: ", "{}">>, <<Str(IntStr(Len(g.node)))>>),
       Fill(<<"  ValueInfo in total: ", "{}">>, <<Str(IntStr(Len(g.value_info)))>>),
       Fill(<<"  Initializers in total: ", "{}">>, <<Str(IntStr(Len(g.initializer)))>>),
       Fill(<<"  Sparse Initializers in total: ", "{}">>,
            <<Str(IntStr(Len(g.sparse_initializer)))>>),
       Fill(<<"  Quantization in total: ", "{}">>,
            <<Str(IntStr(Len(g.quantization_annotation)))>>) >>

print_value_info(t) ==
    << Fill(<<"  ValueInfo \"", "{}", "\":">>, <<Str(t.name)>>)
       \o Fill(<<" type ", "{}", ",">>, <<dtype(t.elem_type)>>)
       \o Fill(<<" shape ", "{}", ",">>, <<shape(t.shape)>>) >>

print_initializer(t, detail) ==
    << Fill(<<"  Initializer \"", "{}", "\":">>, <<Str(t.name)>>)
       \o Fill(<<" type ", "{}", ",">>, <<dtype(t.data_type)>>)
       \o Fill(<<" shape ", "{}", ",">>, <<Repr(t.dims)>>) >>
    \o (IF detail THEN <<Fill(<<"    float data: ", "{}">>, <<Repr(t.float_data)>>)>>
        ELSE <<>>)

print_node(n, detail) ==
    << Fill(<<"  Node \"", "{}", "\":">>, <<Str(n.name)>>)
       \o Fill(<<" type \"", "{}", "\",">>, <<Str(n.op_type)>>)
       \o Fill(<<" inputs \"", "{}", "\",">>, <<Repr(n.input)>>)
       \o Fill(<<" outputs \"", "{}", "\"">>, <<Repr(n.output)>>) >>
    \o (IF detail /\ Len(n.attribute) > 0
        THEN <<Fill(<<"    attributes: ", "{}">>, <<Repr(n.attribute)>>)>>
        ELSE <<>>)

(* ------------------------- collection locator --------------------------- *)
\* the tensor collections in the order print_tensor probes them
TensorCollections(g) ==
    << [kind |-> "value_info", items |-> g.value_info],
       [kind |-> "initializer", items |-> g.initializer],
       [kind |-> "input", items |-> g.input],
       [kind |-> "output", items |-> g.output] >>

\* the printer print_tensor applies to an element of a collection
PrintOf(kind, t, detail) ==
    IF kind = "initializer" THEN print_initializer(t, detail) ELSE print_value_info(t)

TensorIndexMsg == <<"indices ", "{}", " out of range, check the total size of tensors">>

RECURSIVE ProbeIndex(_, _, _, _)
\* the body of `for idx in indices` of print_tensor over the collections cs
\* still to probe; hit is printed_any
ProbeIndex(cs, idx, detail, hit) ==
    IF cs = <<>>
    THEN IF hit THEN Res(<<>>, NoErr)
         ELSE Res(<<>>, ValueError("IndexOutOfRange", TensorIndexMsg))
    ELSE LET c == Head(cs) IN
         IF idx < Len(c.items)
         THEN IF InRange(c.items, idx)
              THEN Then(Res(PrintOf(c.kind, Item(c.items, idx), detail), NoErr),
                        ProbeIndex(Tail(cs), idx, detail, TRUE))
              ELSE Res(<<>>, IndexError)
         ELSE ProbeIndex(Tail(cs), idx, detail, hit)

RECURSIVE TensorIndices(_, _, _)
TensorIndices(g, indices, detail) ==
    IF indices = <<>> THEN Res(<<>>, NoErr)
    ELSE Then(ProbeIndex(TensorCollections(g), Head(indices), detail, FALSE),
              TensorIndices(g, Tail(indices), detail))

\* FirstNamed without the `break`: the scan runs on to the last element named
\* name
FirstNamed_NoBreak(items, name) ==
    IF \E k \in 1..Len(items) : items[k].name = name
    THEN CHOOSE k \in 1..Len(items) :
           /\ items[k].name = name
           /\ \A j \in (k + 1)..Len(items) : items[j].name # name
    ELSE 0

\* position of the first element of items named name, 0 if there is none
FirstNamed(items, name) ==
    IF \E k \in 1..Len(items) : items[k].name = name
    THEN CHOOSE k \in 1..Len(items) :
           /\ items[k].name = name
           /\ \A j \in 1..(k - 1) : items[j].name # name
    ELSE 0

\* the body of `for name in names` of print_tensor: each collection is
\* scanned up to its first element of that name
TensorNameLines(g, name, detail) ==
    LET cs == TensorCollections(g) IN
    Concat([c \in 1..Len(cs) |->
              LET k == FirstNamed(cs[c].items, name) IN
              IF k = 0 THEN <<>> ELSE PrintOf(cs[c].kind, cs[c].items[k], detail)])

TensorNames(g, names, detail) ==
    LET cs == TensorCollections(g)
        printed == \E k \in 1..Len(names) : \E c \in 1..Len(cs) :
                      FirstNamed(cs[c].items, names[k]) # 0
    IN Res(Concat([k \in 1..Len(names) |-> TensorNameLines(g, names[k], detail)]),
           IF printed THEN NoErr
           ELSE ValueError("NameNotFound",
                           Fill(<<"No tensor found with name ", "{}">>,
                                <<Str(names[Len(names)])>>)))

print_tensor(g, indices, names, detail) ==
    Then(Res(<< <<"Tensor information:">>, <<Rule>> >>, NoErr),
         IF Len(indices) > 0 THEN TensorIndices(g, indices, detail)
         ELSE IF Len(names) > 0 THEN TensorNames(g, names, detail)
         ELSE Res(Concat([k \in 1..Len(g.value_info) |-> print_value_info(g.value_info[k])])
                  \o Concat([k \in 1..Len(g.initializer) |->
                               print_initializer(g.initializer[k], FALSE)]),
                  NoErr))

RECURSIVE NodeIndices(_, _, _)
NodeIndices(g, indices, detail) ==
    IF indices = <<>> THEN Res(<<>>, NoErr)
    ELSE LET idx == Head(indices) IN
         IF idx >= Len(g.node)
         THEN Res(<<>>, ValueError("IndexOutOfRange",
                        Fill(<<"indices ", "{}", " out of range, node in total ", "{}">>,
                             <<Str(IntStr(idx)), Str(IntStr(Len(g.node)))>>)))
         ELSE IF InRange(g.node, idx)
         THEN Then(Res(print_node(Item(g.node, idx), detail), NoErr),
                   NodeIndices(g, Tail(indices), detail))
         ELSE Res(<<>>, IndexError)

NodeNames(g, names, detail) ==
    LET found == \E k \in 1..Len(names) : FirstNamed(g.node, names[k]) # 0
    IN Res(Concat([k \in 1..Len(names) |->
                     LET j == FirstNamed(g.node, names[k]) IN
                     IF j = 0 THEN <<>> ELSE print_node(g.node[j], detail)]),
           IF found THEN NoErr
           ELSE ValueError("NameNotFound",
                           Fill(<<"No node found with name ", "{}">>,
                                <<Str(names[Len(names)])>>)))

RECURSIVE Counter(_)
\* collections.Counter(list): <<key, count>> entries in the order the keys
\* are first met
Counter(keys) ==
    IF keys = <<>> THEN <<>>
    ELSE LET rest == Counter(SubSeq(keys, 1, Len(keys) - 1))
             key == keys[Len(keys)]
         IN IF \E k \in 1..Len(rest) : rest[k][1] = key
            THEN [k \in 1..Len(rest) |->
                    IF rest[k][1] = key THEN <<key, rest[k][2] + 1>> ELSE rest[k]]
            ELSE Append(rest, <<key, 1>>)

RECURSIVE most_common_Unstable(_)
\* most_common with a sort that puts an entry before those of equal count
most_common_Unstable(items) ==
    IF items = <<>> THEN <<>>
    ELSE LET sorted == most_common_Unstable(SubSeq(items, 1, Len(items) - 1))
             e == items[Len(items)]
             pos == Cardinality({k \in 1..Len(sorted) : sorted[k][2] > e[2]})
         IN SubSeq(sorted, 1, pos) \o <<e>> \o SubSeq(sorted, pos + 1, Len(sorted))

RECURSIVE most_common(_)
\* Counter.most_common(): sorted(items, key=count, reverse=True), a stable
\* sort: entries of equal count keep their order
most_common(items) ==
    IF items = <<>> THEN <<>>
    ELSE LET sorted == most_common(SubSeq(items, 1, Len(items) - 1))
             e == items[Len(items)]
             \* e goes after every entry whose count is not smaller
             pos == Cardinality({k \in 1..Len(sorted) : sorted[k][2] >= e[2]})
         IN SubSeq(sorted, 1, pos) \o <<e>> \o SubSeq(sorted, pos + 1, Len(sorted))

NodeHistogram(g) ==
    LET ops == most_common(Counter([k \in 1..Len(g.node) |-> g.node[k].op_type]))
    IN [k \in 1..Len(ops) |->
          Fill(<<"  Node type \"", "{}", "\" has: ", "{}">>,
               <<Str(ops[k][1]), Str(IntStr(ops[k][2]))>>)]

print_nodes(g, indices, names, detail) ==
    Then(Res(<< <<"Node information:">>, <<Rule>> >>, NoErr),
         IF Len(indices) > 0 THEN NodeIndices(g, indices, detail)
         ELSE IF Len(names) > 0 THEN NodeNames(g, names, detail)
         ELSE Res(NodeHistogram(g) \o << <<Rule>> >>
                  \o Concat([k \in 1..Len(g.node) |-> print_node(g.node[k], FALSE)]),
                  NoErr))

(* ----------------------------- InspectCmd.run --------------------------- *)
NoModel == Model(<<>>, EmptyGraph)

Init ==
    /\ \E run \in Runs : args = run[1] /\ file = run[2]
    /\ pc = "validate"
    /\ m = NoModel
    /\ checked = FALSE
    /\ loaded = FALSE
    /\ printed_any = FALSE
    /\ out = <<>>
    /\ err = NoErr

has_indices == Len(args.indices) # 0
has_names == Len(args.names) # 0
\* `flag is None`: a store_true flag is False or True, never None
IsNone(flag) == flag \notin BOOLEAN
no_tensor_or_node == IsNone(args.node) /\ IsNone(args.tensor)

\* Validation with the conflict test made on has_indices twice
Validation_NoConflict ==
    IF (has_indices /\ has_indices) /\ no_tensor_or_node
    THEN ValueError("SelectorWithoutTarget",
                    <<"Can NOT set --indices or --names without --node or --tensor">>)
    ELSE IF (~has_indices /\ ~has_names) /\ args.detail
    THEN ValueError("DetailWithoutSelector",
                    <<"Can NOT set --detail without --indices or --names">>)
    ELSE NoErr

\* the exception the validation raises, NoErr if it raises none
Validation ==
    IF has_indices /\ has_names
    THEN ValueError("ConflictingSelectors", <<"Can NOT set both --indices and --names">>)
    ELSE IF (has_indices \/ has_indices) /\ no_tensor_or_node
    THEN ValueError("SelectorWithoutTarget",
                    <<"Can NOT set --indices or --names without --node or --tensor">>)
    ELSE IF (~has_indices /\ ~has_names) /\ args.detail
    THEN ValueError("DetailWithoutSelector",
                    <<"Can NOT set --detail without --indices or --names">>)
    ELSE NoErr

Validate ==
    /\ pc = "validate"
    /\ err' = Validation
    /\ pc' = IF Validation = NoErr THEN "check" ELSE "failed"
    /\ UNCHANGED <<args, file, m, checked, loaded, printed_any, out>>

\* onnx.checker.check_model: it returns, or it raises and the exception is
\* caught and logged; run goes on to load the model either way
CheckModel ==
    /\ pc = "check"
    /\ checked' = TRUE
    /\ pc' = "load"
    /\ UNCHANGED <<args, file, m, loaded, printed_any, out, err>>

\* onnx.load_model: returns the model or raises
LoadModel ==
    /\ pc = "load"
    /\ \/ /\ m' = file
          /\ loaded' = TRUE
          /\ pc' = "meta"
          /\ err' = err
       \/ /\ err' = ModelLoadFailure
          /\ pc' = "failed"
          /\ UNCHANGED <<m, loaded>>
    /\ UNCHANGED <<args, file, checked, printed_any, out>>

\* the effect of one `if args.x: print_x(...); printed_any = True`
Printing(requested, res, next) ==
    IF ~requested
    THEN /\ pc' = next
         /\ UNCHANGED <<out, err, printed_any>>
    ELSE /\ out' = out \o res.out
         /\ err' = res.err
         /\ pc' = IF res.err = NoErr THEN next ELSE "failed"
         /\ printed_any' = IF res.err = NoErr THEN TRUE ELSE printed_any

PrintMeta ==
    /\ pc = "meta"
    /\ Printing(args.meta, Res(print_meta(m), NoErr), "node")
    /\ UNCHANGED <<args, file, m, checked, loaded>>

PrintNodes ==
    /\ pc = "node"
    /\ Printing(args.node, print_nodes(m.graph, args.indices, args.names, args.detail),
                "tensor")
    /\ UNCHANGED <<args, file, m, checked, loaded>>

PrintTensor ==
    /\ pc = "tensor"
    /\ Printing(args.tensor, print_tensor(m.graph, args.indices, args.names, args.detail),
                "basic")
    /\ UNCHANGED <<args, file, m, checked, loaded>>

\* print_basic(args, g): two arguments for a function of one
CallPrintBasic(g) == Res(<<>>, TypeError)

PrintBasic ==
    /\ pc = "basic"
    /\ Printing(~printed_any, CallPrintBasic(m.graph), "done")
    /\ UNCHANGED <<args, file, m, checked, loaded>>

Next ==
    \/ Validate
    \/ CheckModel
    \/ LoadModel
    \/ PrintMeta
    \/ PrintNodes
    \/ PrintTensor
    \/ PrintBasic

Spec == Init /\ [][Next]_vars

TypeOK ==
    /\ args \in Args
    /\ file \in Files
    /\ pc \in {"validate", "check", "load", "meta", "node", "tensor", "basic", "done", "failed"}
    /\ (pc = "failed") = (err # NoErr)

(* ======================================================================== *)
(*                               properties                                 *)
(* ======================================================================== *)
Range(s) == {s[k] : k \in 1..Len(s)}

\* what the meta step has printed before the node and tensor steps
MetaOut == IF args.meta THEN print_meta(m) ELSE <<>>

\* the output that follows the meta block
AfterMeta == SubSeq(out, Len(MetaOut) + 1, Len(out))

\* run got past the loading of the model and has ended
Ended == loaded /\ pc \in {"done", "failed"}

\* print_nodes was the only locator to run, and it has returned or raised
NodesRan ==
    /\ args.node /\ ~args.tensor
    /\ \/ pc \in {"tensor", "basic", "done"}
       \/ pc = "failed" /\ loaded

\* print_tensor was the only locator to run, and it has returned or raised
TensorRan ==
    /\ args.tensor /\ ~args.node
    /\ \/ pc \in {"basic", "done"}
       \/ pc = "failed" /\ loaded

IndexMode == Len(args.indices) > 0 /\ Len(args.names) = 0
NameMode == Len(args.names) > 0 /\ Len(args.indices) = 0
AllMode == Len(args.names) = 0 /\ Len(args.indices) = 0

\* i is a valid zero-based index of collection C
Valid(C, i) == 0 <= i /\ i < Len(C)

\* the lookup failed on an index: the locator's own ValueError, or the
\* IndexError of the indexed collection
IndexFailure == err.kind \in {"IndexOutOfRange", "IndexError"}

TensorHeader == << <<"Tensor information:">>, <<Rule>> >>
NodeHeader == << <<"Node information:">>, <<Rule>> >>

(* ------------------------------- C6 ------------------------------------- *)
\* C6: whenever both the index list and the name list are non-empty, run
\* fails with ConflictingSelectors, whatever the flags, before the model is
\* checked or loaded and before anything is printed.
C6_ConflictingSelectors ==
    (Len(args.indices) # 0 /\ Len(args.names) # 0 /\ pc # "validate")
    => /\ pc = "failed"
       /\ err.exc = "ValueError"
       /\ err.kind = "ConflictingSelectors"
       /\ ~checked /\ ~loaded
       /\ out = <<>>

C6_Witness ==
    /\ Len(args.indices) # 0 /\ Len(args.names) # 0
    /\ args.meta /\ args.node /\ args.tensor /\ args.detail
    /\ pc = "failed" /\ err.kind = "ConflictingSelectors"

(* ------------------------------- C4 ------------------------------------- *)
\* C4: whenever exactly one of the index list and the name list is non-empty
\* and neither --node nor --tensor is set, run fails with
\* SelectorWithoutTarget.
C4_SelectorWithoutTarget ==
    ((IndexMode \/ NameMode) /\ ~args.node /\ ~args.tensor /\ pc # "validate")
    => (pc = "failed" /\ err.kind = "SelectorWithoutTarget")

(* ------------------------------- C5 ------------------------------------- *)
\* C5: when none of --meta, --node, --tensor is requested and the model is
\* loaded, run completes without error and has printed exactly the 8 lines
\* of the aggregate summary; in every other completed run the summary is
\* not what was printed.
C5_SummaryFallback ==
    Ended =>
      IF ~args.meta /\ ~args.node /\ ~args.tensor
      THEN pc = "done" /\ err = NoErr /\ out = print_basic(m.graph) /\ Len(out) = 8
      ELSE out # print_basic(m.graph)

(* ------------------------------- C9 ------------------------------------- *)
\* C9: the meta block is its header, the six fixed labeled lines, then one
\* line `meta.<key> = <value>` per metadata pair, in declared order.
C9_MetaBlock ==
    (args.meta /\ pc = "node")
    => /\ Len(out) = 8 + Len(m.metadata_props)
       /\ out[3][1] = "  IR Version: "
       /\ out[4][1] = "  Opset Import: "
       /\ out[5][1] = "  Producer name: "
       /\ out[6][1] = "  Producer version: "
       /\ out[7][1] = "  Domain: "
       /\ out[8][1] = "  Doc string: "
       /\ \A i \in 1..Len(m.metadata_props) :
            out[8 + i] = <<"  meta.", m.metadata_props[i].key, " = ",
                           m.metadata_props[i].value>>

(* ------------------------------- C7 ------------------------------------- *)
\* C7: the message of every IndexOutOfRange failure contains the value of
\* the offending index.
C7_IndexInMessage ==
    err.kind = "IndexOutOfRange"
    => \E i \in Range(args.indices) : IntStr(i) \in Range(err.msg)

(* ------------------------------- C8 ------------------------------------- *)
OpTypesOf(g) == {g.node[k].op_type : k \in 1..Len(g.node)}
OpCount(g, op) == Cardinality({k \in 1..Len(g.node) : g.node[k].op_type = op})
FirstSeen(g, op) == CHOOSE k \in 1..Len(g.node) :
                      /\ g.node[k].op_type = op
                      /\ \A j \in 1..(k - 1) : g.node[j].op_type # op

RECURSIVE SumCounts(_, _)
SumCounts(g, hist) ==
    IF hist = <<>> THEN 0 ELSE OpCount(g, Head(hist)[2]) + SumCounts(g, Tail(hist))

NodeAllDone == args.node /\ AllMode /\ pc = "tensor"

\* C8: with no selector, print_nodes prints the histogram before the node
\* listing: one entry per distinct operation type with its number of nodes,
\* the counts summing to the number of nodes, ordered by descending count
\* and, among equal counts, by first occurrence in the node list; then one
\* non-detailed line per node in node order.
C8_Histogram ==
    NodeAllDone =>
      LET g == m.graph
          d == Cardinality(OpTypesOf(g))
          hist == SubSeq(AfterMeta, 3, 2 + d)
      IN /\ Len(AfterMeta) = 2 + d + 1 + Len(g.node)
         /\ SubSeq(AfterMeta, 1, 2) = NodeHeader
         /\ \A k \in 1..d :
              /\ Len(hist[k]) = 4
              /\ hist[k][1] = "  Node type \""
              /\ hist[k][2] \in OpTypesOf(g)
              /\ hist[k][4] = IntStr(OpCount(g, hist[k][2]))
         /\ \A j, k \in 1..d : j < k =>
              /\ hist[j][2] # hist[k][2]
              /\ \/ OpCount(g, hist[j][2]) > OpCount(g, hist[k][2])
                 \/ /\ OpCount(g, hist[j][2]) = OpCount(g, hist[k][2])
                    /\ FirstSeen(g, hist[j][2]) < FirstSeen(g, hist[k][2])
         /\ SumCounts(g, hist) = Len(g.node)
         /\ AfterMeta[3 + d] = <<Rule>>
         /\ \A k \in 1..Len(g.node) :
              AfterMeta[3 + d + k] =
                <<"  Node \"", g.node[k].name, "\":", " type \"", g.node[k].op_type,
                  "\",", " inputs \"", "[", "]", "\",", " outputs \"", "[", "]", "\"">>

\* the scenario Conv, Relu, Conv: "Conv: 2" is printed before "Relu: 1"
C8_Witness ==
    /\ NodeAllDone
    /\ [k \in 1..Len(m.graph.node) |-> m.graph.node[k].op_type] = <<"Conv", "Relu", "Conv">>
    /\ AfterMeta[3] = <<"  Node type \"", "Conv", "\" has: ", "2">>
    /\ AfterMeta[4] = <<"  Node type \"", "Relu", "\" has: ", "1">>
    /\ Len(AfterMeta) = 8

(* ------------------------------- C10 ------------------------------------ *)
RECURSIVE NodeIndexExpected(_, _, _)
\* what the claim prescribes for the index list: the node at the zero-based
\* position i when 0 <= i < number of nodes, IndexOutOfRange otherwise
NodeIndexExpected(g, indices, detail) ==
    IF indices = <<>> THEN [out |-> <<>>, kind |-> "None"]
    ELSE IF ~Valid(g.node, Head(indices)) THEN [out |-> <<>>, kind |-> "IndexOutOfRange"]
    ELSE LET rest == NodeIndexExpected(g, Tail(indices), detail)
         IN [out |-> print_node(g.node[Head(indices) + 1], detail) \o rest.out,
             kind |-> rest.kind]

\* C10: in node index mode the node at position i is printed iff
\* 0 <= i < number of nodes, negative i included; every other index fails
\* with IndexOutOfRange, and no other node is printed for i.
C10_NodeIndexBound ==
    (NodesRan /\ IndexMode) =>
      LET e == NodeIndexExpected(m.graph, args.indices, args.detail)
      IN /\ AfterMeta = NodeHeader \o e.out
         /\ IndexFailure = (e.kind = "IndexOutOfRange")
         /\ (pc = "failed") = IndexFailure

(* ------------------------------- C1 ------------------------------------- *)
\* the lines the claim prescribes for index i: the element at position i of
\* every collection in which i is valid, in the order value-infos,
\* initializers, graph inputs, graph outputs
TensorIndexLines(g, i, detail) ==
    (IF Valid(g.value_info, i) THEN print_value_info(g.value_info[i + 1]) ELSE <<>>)
    \o (IF Valid(g.initializer, i) THEN print_initializer(g.initializer[i + 1], detail)
        ELSE <<>>)
    \o (IF Valid(g.input, i) THEN print_value_info(g.input[i + 1]) ELSE <<>>)
    \o (IF Valid(g.output, i) THEN print_value_info(g.output[i + 1]) ELSE <<>>)

ValidNowhere(g, i) ==
    /\ ~Valid(g.value_info, i) /\ ~Valid(g.initializer, i)
    /\ ~Valid(g.input, i) /\ ~Valid(g.output, i)

RECURSIVE TensorIndexExpected(_, _, _)
TensorIndexExpected(g, indices, detail) ==
    IF indices = <<>> THEN [out |-> <<>>, kind |-> "None"]
    ELSE IF ValidNowhere(g, Head(indices)) THEN [out |-> <<>>, kind |-> "IndexOutOfRange"]
    ELSE LET rest == TensorIndexExpected(g, Tail(indices), detail)
         IN [out |-> TensorIndexLines(g, Head(indices), detail) \o rest.out,
             kind |-> rest.kind]

\* C1: in tensor index mode, for every index i, the element at position i
\* is printed for each of the four collections where 0 <= i < len, in
\* priority order, nothing for the others, and the lookup fails with
\* IndexOutOfRange iff i is valid in none of them.
C1_TensorIndex ==
    (TensorRan /\ IndexMode) =>
      LET e == TensorIndexExpected(m.graph, args.indices, args.detail)
      IN /\ AfterMeta = TensorHeader \o e.out
         /\ IndexFailure = (e.kind = "IndexOutOfRange")
         /\ (pc = "failed") = IndexFailure

(* ------------------------------- C2 ------------------------------------- *)
NamesOf(items) == {items[k].name : k \in 1..Len(items)}

TensorNamesOf(g) ==
    NamesOf(g.value_info) \cup NamesOf(g.initializer) \cup NamesOf(g.input)
    \cup NamesOf(g.output)

\* the requested names absent from every collection the locator that ran
\* searches
AbsentNames ==
    IF args.node THEN Range(args.names) \ NamesOf(m.graph.node)
    ELSE Range(args.names) \ TensorNamesOf(m.graph)

\* C2: in name mode, when a requested name is absent from every relevant
\* collection, the lookup fails with NameNotFound and the message names an
\* absent name, also when other names of the list match.
C2_NameNotFound ==
    ((NodesRan \/ TensorRan) /\ NameMode /\ AbsentNames # {})
    => /\ pc = "failed"
       /\ err.kind = "NameNotFound"
       /\ err.msg[Len(err.msg)] \in AbsentNames

(* ------------------------------- C3 ------------------------------------- *)
RECURSIVE FirstOf(_, _)
\* the first element of items named name, as a sequence of at most one
FirstOf(items, name) ==
    IF items = <<>> THEN <<>>
    ELSE IF Head(items).name = name THEN <<Head(items)>>
    ELSE FirstOf(Tail(items), name)

ValueInfoLines(found) == IF found = <<>> THEN <<>> ELSE print_value_info(found[1])
InitializerLines(found, detail) ==
    IF found = <<>> THEN <<>> ELSE print_initializer(found[1], detail)

\* the first element named name of the first collection that has one
FirstCollectionLines(g, name, detail) ==
    IF FirstOf(g.value_info, name) # <<>> THEN ValueInfoLines(FirstOf(g.value_info, name))
    ELSE IF FirstOf(g.initializer, name) # <<>>
    THEN InitializerLines(FirstOf(g.initializer, name), detail)
    ELSE IF FirstOf(g.input, name) # <<>> THEN ValueInfoLines(FirstOf(g.input, name))
    ELSE ValueInfoLines(FirstOf(g.output, name))

\* the first element named name of every collection that has one
EveryCollectionLines(g, name, detail) ==
    ValueInfoLines(FirstOf(g.value_info, name))
    \o InitializerLines(FirstOf(g.initializer, name), detail)
    \o ValueInfoLines(FirstOf(g.input, name))
    \o ValueInfoLines(FirstOf(g.output, name))

\* C3 as stated: in tensor name mode at most one element is printed per
\* requested name, the first of that name in the first collection that has
\* it; a later collection holding the name adds nothing.
C3_FirstCollectionOnly ==
    (TensorRan /\ NameMode) =>
      AfterMeta = TensorHeader
                  \o Concat([k \in 1..Len(args.names) |->
                               FirstCollectionLines(m.graph, args.names[k], args.detail)])

\* C3 amended: in tensor name mode, for every requested name, in the order
\* requested, at most one element is printed per collection: the first
\* element of that name of each collection that has it, in the order
\* value-infos, initializers, graph inputs, graph outputs.
C3_FirstPerCollection ==
    (TensorRan /\ NameMode) =>
      AfterMeta = TensorHeader
                  \o Concat([k \in 1..Len(args.names) |->
                               EveryCollectionLines(m.graph, args.names[k], args.detail)])

\* the name "a" is an initializer and a graph input: both are printed, the
\* initializer first
C3_Witness ==
    /\ TensorRan /\ NameMode /\ pc = "done"
    /\ args.names = <<"a">> /\ ~args.detail
    /\ Len(m.graph.value_info) = 0 /\ Len(m.graph.output) = 0
    /\ Len(m.graph.initializer) = 1 /\ m.graph.initializer[1].name = "a"
    /\ Len(m.graph.input) = 1 /\ m.graph.input[1].name = "a"
    /\ Len(AfterMeta) = 4
    /\ AfterMeta[3][1] = "  Initializer \""
    /\ AfterMeta[4][1] = "  ValueInfo \""

====
